---- MODULE Spec2Model ----
(***************************************************************************)
(* Parallel execution coordinator of gauge                                 *)
(* (execution/parallelExecution.go).                                       *)
(*                                                                         *)
(* One run of parallelExecution.run(): the coordinator goroutine, the      *)
(* closer goroutine (executeEagerly / executeLazily) and one goroutine per *)
(* stream (startSpecsExecution / startStream).  The result channel is      *)
(* unbuffered: a send is a rendezvous with the collector's range loop.     *)
(*                                                                         *)
(* Specifications are named 1..Len(specCollection).  A SuiteResult is a    *)
(* record; ExecutionTime (wall clock) is left out.  A hook result is a     *)
(* number: Nil, or the stream that produced it.                            *)
(***************************************************************************)
EXTENDS Integers, Sequences, FiniteSets, TLC

VARIABLES
    Strategy,                  \* var Strategy string (process wide)
    specCollection,            \* e.specCollection: the ordered spec names
    numberOfExecutionStreams,  \* e.numberOfExecutionStreams (requested)
    suiteHooks,                \* whether the project under test has suite-level hooks
    pc,                        \* position of run() on the coordinator goroutine
    pluginHandler,             \* e.pluginHandler after start(): "none", "started" or "failed"
    nStreams,                  \* run(): nStreams := e.numberOfStreams()
    lazyPath,                  \* run(): the branch taken at `if isLazy()`
    closerPc,                  \* position of executeEagerly / executeLazily
    closerI,                   \* loop index of the spawning loop
    buckets,                   \* executeEagerly: specs := filter.DistributeSpecs(..)
    wg,                        \* e.wg counter
    index,                     \* shared cursor of the SpecCollection (Lazy pull)
    streamPc,                  \* position of each stream goroutine
    claimed,                   \* the spec results of the specs each stream pulled (Lazy)
    streamRes,                 \* the SuiteResult each stream sends
    started,                   \* worker processes started per stream (runner.Start ok)
    killed,                    \* runner.Kill() calls per stream
    executed,                  \* se.execute() calls per stream
    sends,                     \* sends on resChan per stream
    closeCount,                \* close(resChan) calls
    panicked,                  \* a goroutine panicked (send on closed channel, negative wg)
    res,                       \* run(): var res []*result.SuiteResult
    suiteResult,               \* e.suiteResult
    events                     \* coordinator steps, in order

vars == <<Strategy, specCollection, numberOfExecutionStreams, suiteHooks, pc, pluginHandler,
          nStreams, lazyPath,
          closerPc, closerI, buckets, wg, index, streamPc, claimed, streamRes, started, killed,
          executed, sends, closeCount, panicked, res, suiteResult, events>>

(* Bounds of the model *)
MaxSpecs == 3
MaxRequested == 2

Streams == 1..MaxRequested

(***************************************************************************)
(* Values                                                                  *)
(***************************************************************************)
Eager == "eager"
Lazy == "lazy"

StrategyValues == {"lazy", "LAZY", "Lazy", "eager", "EAGER", "bogus", ""}

\* strings.ToLower on the strings of StrategyValues
ToLower(s) ==
    CASE s = "LAZY" -> "lazy"
      [] s = "Lazy" -> "lazy"
      [] s = "EAGER" -> "eager"
      [] OTHER -> s

Nil == 0

\* the elements of a slice
Range(s) == {s[k] : k \in 1..Len(s)}

\* result.SuiteResult{} / result.NewSuiteResult: the zero aggregate
NewSuiteResult ==
    [SpecsFailedCount |-> 0, SpecResults |-> <<>>, IsFailed |-> FALSE,
     PreSuite |-> Nil, PostSuite |-> Nil, UnhandledErrors |-> <<>>]

\* streamExecError{specsSkipped: ..., message: ...}
streamExecError(names) ==
    [kind |-> "streamExecError", specsSkipped |-> names,
     message |-> "Failed to start runner"]

\* fmt.Errorf("Failed to start runner. %s", ...): an error naming no spec
plainError == [kind |-> "error", message |-> "Failed to start runner"]

\* the spec names an unhandled error accounts for
SkippedNames(err) ==
    IF err.kind = "streamExecError" THEN err.specsSkipped ELSE <<>>

(***************************************************************************)
(* Pure functions                                                          *)
(***************************************************************************)
\* mutant: the requested count is not clamped to the number of specs
numberOfStreams_NoClamp(requested, size) == requested

\* func (e *parallelExecution) numberOfStreams() int
numberOfStreams(requested, size) ==
    IF requested > size THEN size ELSE requested

\* func isLazy() bool
isLazy_CaseSensitive(strategy) == strategy = Lazy

isLazy(strategy) == ToLower(strategy) = Lazy

\* func isValidStrategy(strategy string) bool
isValidStrategy(strategy) == ToLower(strategy) = Lazy \/ ToLower(strategy) = Eager

\* filter.DistributeSpecs: round-robin, spec k (0-based) goes to bucket k % n
DistributeSpecs(specs, n) ==
    [b \in 1..n |->
        LET mine == {k \in 1..Len(specs) : ((k - 1) % n) + 1 = b}
            RECURSIVE pick(_)
            pick(k) == IF k > Len(specs) THEN <<>>
                       ELSE IF k \in mine THEN <<specs[k]>> \o pick(k + 1)
                       ELSE pick(k + 1)
        IN pick(1)]

\* mutant: the failure flag is overwritten by each stream result
aggregateStep_LastFlag(r, result) ==
    [SpecsFailedCount |-> r.SpecsFailedCount + result.SpecsFailedCount,
     SpecResults |-> r.SpecResults \o result.SpecResults,
     IsFailed |-> result.IsFailed,
     PreSuite |-> IF result.PreSuite # Nil THEN result.PreSuite ELSE r.PreSuite,
     PostSuite |-> IF result.PostSuite # Nil THEN result.PostSuite ELSE r.PostSuite,
     UnhandledErrors |-> r.UnhandledErrors \o result.UnhandledErrors]

\* mutant: unhandled errors are taken only while the aggregate has none
aggregateStep_FirstErrorsOnly(r, result) ==
    [SpecsFailedCount |-> r.SpecsFailedCount + result.SpecsFailedCount,
     SpecResults |-> r.SpecResults \o result.SpecResults,
     IsFailed |-> IF result.IsFailed THEN TRUE ELSE r.IsFailed,
     PreSuite |-> IF result.PreSuite # Nil THEN result.PreSuite ELSE r.PreSuite,
     PostSuite |-> IF result.PostSuite # Nil THEN result.PostSuite ELSE r.PostSuite,
     UnhandledErrors |-> IF r.UnhandledErrors = <<>> THEN result.UnhandledErrors
                         ELSE r.UnhandledErrors]

\* mutant: a hook result is taken only while the aggregate has none
aggregateStep_FirstHook(r, result) ==
    [SpecsFailedCount |-> r.SpecsFailedCount + result.SpecsFailedCount,
     SpecResults |-> r.SpecResults \o result.SpecResults,
     IsFailed |-> IF result.IsFailed THEN TRUE ELSE r.IsFailed,
     PreSuite |-> IF r.PreSuite = Nil THEN result.PreSuite ELSE r.PreSuite,
     PostSuite |-> IF r.PostSuite = Nil THEN result.PostSuite ELSE r.PostSuite,
     UnhandledErrors |-> r.UnhandledErrors \o result.UnhandledErrors]

\* mutant: the spec results of a stream without failure are dropped
aggregateStep_FailedResultsOnly(r, result) ==
    [SpecsFailedCount |-> r.SpecsFailedCount + result.SpecsFailedCount,
     SpecResults |-> IF result.IsFailed THEN r.SpecResults \o result.SpecResults
                     ELSE r.SpecResults,
     IsFailed |-> IF result.IsFailed THEN TRUE ELSE r.IsFailed,
     PreSuite |-> IF result.PreSuite # Nil THEN result.PreSuite ELSE r.PreSuite,
     PostSuite |-> IF result.PostSuite # Nil THEN result.PostSuite ELSE r.PostSuite,
     UnhandledErrors |-> r.UnhandledErrors \o result.UnhandledErrors]

\* body of the loop of aggregateResults, for one stream result
aggregateStep(r, result) ==
    [SpecsFailedCount |-> r.SpecsFailedCount + result.SpecsFailedCount,
     SpecResults |-> r.SpecResults \o result.SpecResults,
     IsFailed |-> IF result.IsFailed THEN TRUE ELSE r.IsFailed,
     PreSuite |-> IF result.PreSuite # Nil THEN result.PreSuite ELSE r.PreSuite,
     PostSuite |-> IF result.PostSuite # Nil THEN result.PostSuite ELSE r.PostSuite,
     UnhandledErrors |-> r.UnhandledErrors \o result.UnhandledErrors]

RECURSIVE aggregateFrom(_, _)
aggregateFrom(r, suiteResults) ==
    IF suiteResults = <<>> THEN r
    ELSE aggregateFrom(aggregateStep(r, Head(suiteResults)), Tail(suiteResults))

\* func (e *parallelExecution) aggregateResults(suiteResults []*result.SuiteResult)
aggregateResults(suiteResults) == aggregateFrom(NewSuiteResult, suiteResults)

\* mutant: the Eager failure result names no skipped spec
startSpecsExecutionFailure_NoNames(specNames) ==
    [NewSuiteResult EXCEPT !.UnhandledErrors = <<streamExecError(<<>>)>>]

\* the result startSpecsExecution sends when runner.Start fails (Eager)
startSpecsExecutionFailure(specNames) ==
    [NewSuiteResult EXCEPT !.UnhandledErrors = <<streamExecError(specNames)>>]

\* the result startStream sends when runner.Start fails (Lazy)
startStreamFailure ==
    [NewSuiteResult EXCEPT !.UnhandledErrors = <<plainError>>]

\* the single-stream executor's result (simpleExecution.execute): one spec
\* result per spec it ran, in the order it ran them; the failed count and the
\* failure flag encode every failure; hook results are optional
ExecutorResult(stream, specResults, pre, post) ==
    LET failedCount == Cardinality({k \in 1..Len(specResults) : specResults[k].failed})
    IN [SpecsFailedCount |-> failedCount,
        SpecResults |-> specResults,
        IsFailed |-> (failedCount > 0 \/ pre \/ post),
        PreSuite |-> IF pre THEN stream ELSE Nil,
        PostSuite |-> IF post THEN stream ELSE Nil,
        UnhandledErrors |-> <<>>]

\* the hook outcomes an executor can report: none without suite-level hooks
HookOutcomes == IF suiteHooks THEN BOOLEAN ELSE {FALSE}

\* the spec results of running `specs` in order, those in failedSet failing
RunSpecs(specs, failedSet) ==
    [k \in 1..Len(specs) |-> [spec |-> specs[k], failed |-> specs[k] \in failedSet]]

(***************************************************************************)
(* Initial state: a constructed parallelExecution, run() not yet called    *)
(***************************************************************************)
InitFor(strategies, sizes, requests, hooks) ==
    /\ Strategy \in strategies
    /\ specCollection \in {[k \in 1..n |-> k] : n \in sizes}
    /\ numberOfExecutionStreams \in requests
    /\ suiteHooks \in hooks
    /\ pc = "start"
    /\ pluginHandler = "none"
    /\ nStreams = 0
    /\ lazyPath = FALSE
    /\ closerPc = "idle"
    /\ closerI = 0
    /\ buckets = <<>>
    /\ wg = 0
    /\ index = 0
    /\ streamPc = [i \in Streams |-> "idle"]
    /\ claimed = [i \in Streams |-> <<>>]
    /\ streamRes = [i \in Streams |-> NewSuiteResult]
    /\ started = [i \in Streams |-> 0]
    /\ killed = [i \in Streams |-> 0]
    /\ executed = [i \in Streams |-> 0]
    /\ sends = [i \in Streams |-> 0]
    /\ closeCount = 0
    /\ panicked = FALSE
    /\ res = <<>>
    /\ suiteResult = <<>>
    /\ events = <<>>

Init == InitFor({Lazy, Eager}, 0..MaxSpecs, 1..MaxRequested, {FALSE})

inputVars == <<Strategy, specCollection, numberOfExecutionStreams, suiteHooks>>
runVars == <<pc, pluginHandler, nStreams, lazyPath, res, suiteResult, events>>
closerVars == <<closerPc, closerI, buckets>>
streamVars == <<streamPc, claimed, streamRes, started, killed, executed, sends>>

(***************************************************************************)
(* The coordinator goroutine: run()                                        *)
(***************************************************************************)
\* a step of the coordinator with the SuiteResult it carries (<<>>: none)
Event(step, result) == [step |-> step, result |-> result]

\* start(): event.Notify(SuiteStart)
SuiteStart ==
    /\ ~panicked /\ pc = "start"
    /\ events' = Append(events, Event("SuiteStart", <<>>))
    /\ pc' = "plugins"
    /\ UNCHANGED <<inputVars, pluginHandler, nStreams, lazyPath, res, suiteResult, closerVars, wg,
                   index, streamVars, closeCount, panicked>>

\* mutant: a failure to start the plugins is swallowed and run() goes on
afterPluginStartFailure_Swallowed == "resolve"

\* where run() is after plugin.StartPlugins failed: the failure is a hard
\* error, StartPlugins does not return and nothing of run() follows
afterPluginStartFailure == "fatal"

\* start(): e.pluginHandler = plugin.StartPlugins(e.manifest, false)
StartPlugins ==
    /\ ~panicked /\ pc = "plugins"
    /\ \E ok \in BOOLEAN :
         IF ok
           THEN /\ pluginHandler' = "started"
                /\ events' = Append(events, Event("StartPlugins", <<>>))
                /\ pc' = "resolve"
           ELSE /\ pluginHandler' = "failed"
                /\ pc' = afterPluginStartFailure
                /\ UNCHANGED events
    /\ UNCHANGED <<inputVars, nStreams, lazyPath, res, suiteResult, closerVars, wg,
                   index, streamVars, closeCount, panicked>>

\* run(): nStreams := e.numberOfStreams()
ResolveStreams ==
    /\ ~panicked /\ pc = "resolve"
    /\ nStreams' = numberOfStreams(numberOfExecutionStreams, Len(specCollection))
    /\ events' = Append(events, Event("numberOfStreams", <<>>))
    /\ pc' = "spawn"
    /\ UNCHANGED <<inputVars, pluginHandler, lazyPath, res, suiteResult, closerVars, wg,
                   index, streamVars, closeCount, panicked>>

\* run(): resChan := make(chan ...); go e.executeLazily / go e.executeEagerly
Spawn ==
    /\ ~panicked /\ pc = "spawn"
    /\ lazyPath' = isLazy(Strategy)
    /\ closerPc' = IF isLazy(Strategy) THEN "add" ELSE "distribute"
    /\ events' = Append(events, Event("spawn", <<>>))
    /\ pc' = "collect"
    /\ UNCHANGED <<inputVars, pluginHandler, nStreams, res, suiteResult, closerI, buckets, wg,
                   index, streamVars, closeCount, panicked>>

\* run(): the range loop over resChan ends when the channel is closed
RangeEnd ==
    /\ ~panicked /\ pc = "collect"
    /\ closeCount > 0
    /\ pc' = "aggregate"
    /\ UNCHANGED <<inputVars, pluginHandler, nStreams, lazyPath, res, suiteResult, events, closerVars,
                   wg, index, streamVars, closeCount, panicked>>

\* run(): e.aggregateResults(res)
Aggregate ==
    /\ ~panicked /\ pc = "aggregate"
    /\ suiteResult' = <<aggregateResults(res)>>
    /\ events' = Append(events, Event("aggregate", suiteResult'))
    /\ pc' = "suiteEnd"
    /\ UNCHANGED <<inputVars, pluginHandler, nStreams, lazyPath, res, closerVars, wg,
                   index, streamVars, closeCount, panicked>>

\* finish(): event.Notify(SuiteEnd with e.suiteResult)
SuiteEnd_SkippedOnErrors ==
    /\ ~panicked /\ pc = "suiteEnd"
    /\ events' = IF Len(suiteResult[1].UnhandledErrors) > 0
                  THEN events
                  ELSE Append(events, Event("SuiteEnd", suiteResult))
    /\ pc' = "notify"
    /\ UNCHANGED <<inputVars, pluginHandler, nStreams, lazyPath, res, suiteResult, closerVars, wg,
                   index, streamVars, closeCount, panicked>>

SuiteEnd ==
    /\ ~panicked /\ pc = "suiteEnd"
    /\ events' = Append(events, Event("SuiteEnd", suiteResult))
    /\ pc' = "notify"
    /\ UNCHANGED <<inputVars, pluginHandler, nStreams, lazyPath, res, suiteResult, closerVars, wg,
                   index, streamVars, closeCount, panicked>>

\* finish(): e.pluginHandler.NotifyPlugins(message)
NotifyPlugins ==
    /\ ~panicked /\ pc = "notify"
    /\ events' = Append(events, Event("NotifyPlugins", suiteResult))
    /\ pc' = "killPlugins"
    /\ UNCHANGED <<inputVars, pluginHandler, nStreams, lazyPath, res, suiteResult, closerVars, wg,
                   index, streamVars, closeCount, panicked>>

\* finish(): e.pluginHandler.GracefullyKillPlugins(); run() returns e.suiteResult
GracefullyKillPlugins ==
    /\ ~panicked /\ pc = "killPlugins"
    /\ events' = Append(events, Event("GracefullyKillPlugins", <<>>))
    /\ pc' = "done"
    /\ UNCHANGED <<inputVars, pluginHandler, nStreams, lazyPath, res, suiteResult, closerVars, wg,
                   index, streamVars, closeCount, panicked>>

(***************************************************************************)
(* The closer goroutine: executeEagerly / executeLazily                    *)
(***************************************************************************)
\* executeEagerly: specs := filter.DistributeSpecs(e.specCollection.Specs(), distributions)
Distribute ==
    /\ ~panicked /\ closerPc = "distribute"
    /\ buckets' = DistributeSpecs(specCollection, nStreams)
    /\ closerPc' = "add"
    /\ UNCHANGED <<inputVars, runVars, closerI, wg, index, streamVars, closeCount, panicked>>

\* the argument of e.wg.Add in executeLazily / executeEagerly
wgAddDelta(total) == total

\* e.wg.Add(totalStreams) / e.wg.Add(distributions); a negative counter panics
WgAdd ==
    /\ ~panicked /\ closerPc = "add"
    /\ IF wg + wgAddDelta(nStreams) < 0
         THEN panicked' = TRUE /\ UNCHANGED <<wg, closerPc, closerI>>
         ELSE /\ wg' = wg + wgAddDelta(nStreams)
              /\ closerI' = 0
              /\ closerPc' = "loop"
              /\ UNCHANGED panicked
    /\ UNCHANGED <<inputVars, runVars, buckets, index, streamVars, closeCount>>

\* the number of iterations of the spawning loop:
\* `for i := 0; i < totalStreams; i++` (Lazy), `for i, s := range specs` (Eager)
loopCount == IF lazyPath THEN nStreams ELSE Len(buckets)

\* go e.startStream(e.specCollection, resChan, i+1) /
\* go e.startSpecsExecution(s, resChan, i+1)
GoStream ==
    /\ ~panicked /\ closerPc = "loop"
    /\ closerI < loopCount
    /\ streamPc' = [streamPc EXCEPT ![closerI + 1] = "start"]
    /\ closerI' = closerI + 1
    /\ UNCHANGED <<inputVars, runVars, closerPc, buckets, wg, index, claimed, streamRes,
                   started, killed, executed, sends, closeCount, panicked>>

\* mutant: the closer does not wait for the streams
wgWaitReturns_NoWait == TRUE

\* the condition e.wg.Wait() returns on
wgWaitReturns == wg = 0

\* the loop is over; e.wg.Wait() returns once the counter is zero
WgWait ==
    /\ ~panicked /\ closerPc = "loop"
    /\ closerI >= loopCount
    /\ wgWaitReturns
    /\ closerPc' = "close"
    /\ UNCHANGED <<inputVars, runVars, closerI, buckets, wg, index, streamVars,
                   closeCount, panicked>>

\* close(resChan); closing a closed channel panics
Close ==
    /\ ~panicked /\ closerPc = "close"
    /\ IF closeCount > 0
         THEN panicked' = TRUE /\ UNCHANGED closeCount
         ELSE closeCount' = closeCount + 1 /\ UNCHANGED panicked
    /\ closerPc' = "done"
    /\ UNCHANGED <<inputVars, runVars, closerI, buckets, wg, index, streamVars>>

(***************************************************************************)
(* A stream goroutine: startSpecsExecution (Eager) / startStream (Lazy)    *)
(***************************************************************************)
\* runner, err := runner.Start(...): the worker process starts or fails to
StartRunner(i) ==
    /\ ~panicked /\ streamPc[i] = "start"
    /\ \E ok \in BOOLEAN :
         IF ok
           THEN /\ started' = [started EXCEPT ![i] = @ + 1]
                /\ streamPc' = [streamPc EXCEPT ![i] = "exec"]
           ELSE /\ streamPc' = [streamPc EXCEPT ![i] = "failed"]
                /\ UNCHANGED started
    /\ UNCHANGED <<inputVars, runVars, closerVars, wg, index, claimed, streamRes,
                   killed, executed, sends, closeCount, panicked>>

\* mutant: every goroutine sees the loop variable's last value
bucketOf_LoopVar(i) == buckets[Len(buckets)]

\* executeEagerly: `for i, s := range specs { go e.startSpecsExecution(s, resChan, i+1) }`
\* the collection s that stream i+1 is started with
bucketOf(i) == buckets[i]

\* startSpecsExecutionWithRunner, Eager: se.execute() on the stream's bucket
Execute(i) ==
    /\ ~panicked /\ streamPc[i] = "exec" /\ ~lazyPath
    /\ \E failedSet \in SUBSET Range(bucketOf(i)), pre \in HookOutcomes, post \in HookOutcomes :
         streamRes' = [streamRes EXCEPT ![i] =
                          ExecutorResult(i, RunSpecs(bucketOf(i), failedSet), pre, post)]
    /\ executed' = [executed EXCEPT ![i] = @ + 1]
    /\ streamPc' = [streamPc EXCEPT ![i] = "kill"]
    /\ UNCHANGED <<inputVars, runVars, closerVars, wg, index, claimed,
                   started, killed, sends, closeCount, panicked>>

\* mutant: the cursor is read one position behind
SpecCollectionNext_Behind(specs, cursor) ==
    IF cursor < Len(specs) THEN <<specs[IF cursor = 0 THEN 1 ELSE cursor]>> ELSE <<>>

\* the shared collection's "take next work unit": the next unclaimed spec, or
\* <<>> once the collection is exhausted; one pull is atomic (mutual exclusion)
SpecCollectionNext(specs, cursor) == IF cursor < Len(specs) THEN <<specs[cursor + 1]>> ELSE <<>>

\* startSpecsExecutionWithRunner, Lazy: se.execute() pulls one spec from the
\* shared collection and runs it
Pull(i) ==
    /\ ~panicked /\ streamPc[i] = "exec" /\ lazyPath
    /\ SpecCollectionNext(specCollection, index) # <<>>
    /\ index' = index + 1
    /\ \E failed \in BOOLEAN :
         claimed' = [claimed EXCEPT ![i] =
                        Append(@, [spec |-> SpecCollectionNext(specCollection, index)[1],
                                   failed |-> failed])]
    /\ UNCHANGED <<inputVars, runVars, closerVars, wg, streamPc, streamRes,
                   started, killed, executed, sends, closeCount, panicked>>

\* startSpecsExecutionWithRunner, Lazy: a pull returns "no more work" and
\* se.execute() returns
ExecuteDone(i) ==
    /\ ~panicked /\ streamPc[i] = "exec" /\ lazyPath
    /\ SpecCollectionNext(specCollection, index) = <<>>
    /\ \E pre \in HookOutcomes, post \in HookOutcomes :
         streamRes' = [streamRes EXCEPT ![i] = ExecutorResult(i, claimed[i], pre, post)]
    /\ executed' = [executed EXCEPT ![i] = @ + 1]
    /\ streamPc' = [streamPc EXCEPT ![i] = "kill"]
    /\ UNCHANGED <<inputVars, runVars, closerVars, wg, index, claimed,
                   started, killed, sends, closeCount, panicked>>

\* mutant: the worker process is killed only when the executor reported no failure
Kill_OnlyOnSuccess(i) ==
    /\ ~panicked /\ streamPc[i] = "kill"
    /\ killed' = [killed EXCEPT ![i] = IF streamRes[i].IsFailed THEN @ ELSE @ + 1]
    /\ streamPc' = [streamPc EXCEPT ![i] = "send"]
    /\ UNCHANGED <<inputVars, runVars, closerVars, wg, index, claimed, streamRes,
                   started, executed, sends, closeCount, panicked>>

\* startSpecsExecutionWithRunner: runner.Kill()
Kill(i) ==
    /\ ~panicked /\ streamPc[i] = "kill"
    /\ killed' = [killed EXCEPT ![i] = @ + 1]
    /\ streamPc' = [streamPc EXCEPT ![i] = "send"]
    /\ UNCHANGED <<inputVars, runVars, closerVars, wg, index, claimed, streamRes,
                   started, executed, sends, closeCount, panicked>>

\* resChan <- r on the unbuffered channel: a send on a closed channel panics,
\* otherwise it completes when the collector's range loop receives it
\* (run(): res = append(res, r))
ChanSend(i, r) ==
    /\ closeCount > 0 \/ pc = "collect"
    /\ IF closeCount > 0
         THEN /\ panicked' = TRUE
              /\ UNCHANGED <<res, sends, streamPc, streamRes>>
         ELSE /\ res' = Append(res, r)
              /\ sends' = [sends EXCEPT ![i] = @ + 1]
              /\ streamRes' = [streamRes EXCEPT ![i] = r]
              /\ streamPc' = [streamPc EXCEPT ![i] = "return"]
              /\ UNCHANGED panicked
    /\ UNCHANGED <<inputVars, pluginHandler, pc, nStreams, lazyPath, suiteResult, events, closerVars,
                   wg, index, claimed, started, killed, executed, closeCount>>

\* startSpecsExecutionWithRunner: resChan <- se.suiteResult
Send(i) ==
    /\ ~panicked /\ streamPc[i] = "send"
    /\ ChanSend(i, streamRes[i])

\* the result a stream sends when runner.Start fails:
\* startStream (Lazy) names no spec, startSpecsExecution (Eager) names s.SpecNames()
startFailureResult(i) ==
    IF lazyPath THEN startStreamFailure ELSE startSpecsExecutionFailure(bucketOf(i))

\* mutant: the failure path returns without sending
SendStartFailure_NoSend(i) ==
    /\ ~panicked /\ streamPc[i] = "failed"
    /\ streamPc' = [streamPc EXCEPT ![i] = "return"]
    /\ UNCHANGED <<inputVars, runVars, closerVars, wg, index, claimed, streamRes,
                   started, killed, executed, sends, closeCount, panicked>>

\* startStream / startSpecsExecution: if err != nil { resChan <- ...; return }
SendStartFailure(i) ==
    /\ ~panicked /\ streamPc[i] = "failed"
    /\ ChanSend(i, startFailureResult(i))

\* mutant: e.wg.Done() is not deferred, the failure path returns before it
WgDone_NotDeferred(i) ==
    /\ ~panicked /\ streamPc[i] = "return"
    /\ wg' = IF started[i] = 0 THEN wg ELSE wg - 1
    /\ streamPc' = [streamPc EXCEPT ![i] = "done"]
    /\ UNCHANGED <<inputVars, runVars, closerVars, index, claimed, streamRes,
                   started, killed, executed, sends, closeCount, panicked>>

\* defer e.wg.Done(); a negative counter panics
WgDone(i) ==
    /\ ~panicked /\ streamPc[i] = "return"
    /\ IF wg - 1 < 0
         THEN panicked' = TRUE /\ UNCHANGED <<wg, streamPc>>
         ELSE /\ wg' = wg - 1
              /\ streamPc' = [streamPc EXCEPT ![i] = "done"]
              /\ UNCHANGED panicked
    /\ UNCHANGED <<inputVars, runVars, closerVars, index, claimed, streamRes,
                   started, killed, executed, sends, closeCount>>

Stream(i) ==
    \/ StartRunner(i)
    \/ Execute(i)
    \/ Pull(i)
    \/ ExecuteDone(i)
    \/ Kill(i)
    \/ Send(i)
    \/ SendStartFailure(i)
    \/ WgDone(i)

Next ==
    \/ SuiteStart
    \/ StartPlugins
    \/ ResolveStreams
    \/ Spawn
    \/ RangeEnd
    \/ Aggregate
    \/ SuiteEnd
    \/ NotifyPlugins
    \/ GracefullyKillPlugins
    \/ Distribute
    \/ WgAdd
    \/ GoStream
    \/ WgWait
    \/ Close
    \/ \E i \in Streams : Stream(i)

Spec == Init /\ [][Next]_vars

\* every goroutine that can take a step eventually takes one
FairSpec == Spec /\ WF_vars(Next)

\* runs of a project with suite-level hooks: the executors may report hook results
HookInit ==
    \/ InitFor({Eager}, MaxRequested..MaxSpecs, {MaxRequested}, {TRUE})
    \/ InitFor({Lazy}, 1..2, 1..2, {TRUE})

HookSpec == HookInit /\ [][Next]_vars

\* runs under every spelling of the Strategy setting
StrategyInit == InitFor(StrategyValues, 0..1, {1}, {FALSE})

StrategySpec == StrategyInit /\ [][Next]_vars

\* runs of a coordinator constructed with any requested stream count,
\* newParallelExecution checks none
RequestInit == InitFor({Lazy, Eager}, 0..MaxSpecs, 0..MaxRequested, {FALSE})

RequestSpec == RequestInit /\ [][Next]_vars

(***************************************************************************)
(* Vocabulary of the properties                                            *)
(***************************************************************************)
\* the smaller of two numbers
Min(a, b) == CHOOSE m \in {a, b} : m <= a /\ m <= b

\* the concatenation of a list of lists
RECURSIVE Flatten(_)
Flatten(ss) == IF ss = <<>> THEN <<>> ELSE Head(ss) \o Flatten(Tail(ss))

\* the streams run() has to spawn
Effective == 1..nStreams

\* stream i's worker process failed to start
StartFailed(i) == streamPc[i] \in {"failed", "return", "done"} /\ started[i] = 0

\* the collector's range loop has ended
Drained == pc \in {"aggregate", "suiteEnd", "notify", "killPlugins", "done"}

\* run() has returned e.suiteResult
Returned == pc = "done" /\ suiteResult # <<>>

\* how often spec s occurs in a list of spec results
Occurrences(s, specResults) ==
    Cardinality({k \in 1..Len(specResults) : specResults[k].spec = s})

\* the names in a list of spec results, in order
Names(specResults) == [k \in 1..Len(specResults) |-> specResults[k].spec]

\* the spec names skipped according to the StreamExecErrors of a list of errors
SkippedIn(errs) == Flatten([k \in 1..Len(errs) |-> SkippedNames(errs[k])])

\* how often name s occurs in a list of names
NameCount(s, names) == Cardinality({k \in 1..Len(names) : names[k] = s})

(***************************************************************************)
(* C1: for every spec count, every requested stream count >= 1, either     *)
(* strategy and every set of streams whose worker process fails to start,  *)
(* once the plugins have started run() eventually drains the result        *)
(* channel, aggregates and returns a SuiteResult: the coordinator never    *)
(* blocks forever on a stream that failed early, nor when there are no     *)
(* streams at all.                                                         *)
(***************************************************************************)
C1_RunReturns == (pc = "resolve") ~> Returned

\* run() has returned although a stream's worker process failed to start
C1_Witness ==
    /\ Returned
    /\ \E i \in Effective : StartFailed(i)

(***************************************************************************)
(* C2: every spawned stream sends exactly once on the result channel, on   *)
(* the success path and on the start-failure path alike: a stream never    *)
(* sends twice, a stream that has returned has sent, and the collector     *)
(* hands aggregation as many StreamResults as streams were spawned.        *)
(***************************************************************************)
C2_OneSendPerStream ==
    /\ \A i \in Streams : sends[i] <= 1
    /\ \A i \in Streams : streamPc[i] \in {"return", "done"} => sends[i] = 1
    /\ \A i \in Streams : streamPc[i] = "idle" => sends[i] = 0
    /\ Len(res) = Cardinality({i \in Streams : sends[i] = 1})
    /\ Drained =>
          /\ {i \in Streams : streamPc[i] # "idle"} = Effective
          /\ \A i \in Effective : sends[i] = 1
          /\ Len(res) = nStreams

\* aggregation got two results, one from a stream that failed to start and
\* one from a stream that ran its executor
C2_Witness ==
    /\ Drained
    /\ \E i, j \in Effective :
          /\ StartFailed(i) /\ sends[i] = 1
          /\ executed[j] = 1 /\ sends[j] = 1

(***************************************************************************)
(* C3: in every interleaving the result channel is closed at most once,    *)
(* exactly once by the time the range loop ends, and only after every      *)
(* stream has sent and counted the wait group down; no goroutine panics    *)
(* (no send on a closed channel), and the range loop does not end while a  *)
(* stream still has a result to send.                                      *)
(***************************************************************************)
C3_ClosedOnceAfterAllSends ==
    /\ closeCount <= 1
    /\ ~panicked
    /\ closeCount > 0 =>
          /\ wg = 0
          /\ \A i \in Effective : streamPc[i] = "done" /\ sends[i] = 1
          /\ \A i \in Streams \ Effective : streamPc[i] = "idle"
    /\ Drained =>
          /\ closeCount = 1
          /\ \A i \in Streams : streamPc[i] \notin {"start", "exec", "failed", "kill", "send"}

\* the channel is closed after two streams have sent and counted down
C3_Witness ==
    /\ closeCount = 1
    /\ nStreams = 2
    /\ \A i \in Effective : sends[i] = 1 /\ streamPc[i] = "done"

\* the aggregate run() returns
TheAggregate == suiteResult[1]

\* how often spec s is accounted for in the aggregate: as an executed spec
\* result, or as a skipped name inside a StreamExecError
Accounted(s) ==
    Occurrences(s, TheAggregate.SpecResults)
      + NameCount(s, SkippedIn(TheAggregate.UnhandledErrors))

(***************************************************************************)
(* C4: in both strategies and for every set of streams that fail to start, *)
(* every spec of the collection is accounted for exactly once in the       *)
(* aggregate run() returns: as an executed spec result or as a skipped     *)
(* name inside a StreamExecError of UnhandledErrors.                       *)
(***************************************************************************)
C4_EverySpecAccountedOnce ==
    Returned => \A s \in Range(specCollection) : Accounted(s) = 1

(***************************************************************************)
(* C5: if a stream fails to start, the aggregate's IsFailed flag is set,   *)
(* whatever the other streams report.                                      *)
(***************************************************************************)
C5_StartFailureSetsIsFailed ==
    (Returned /\ \E i \in Effective : StartFailed(i)) => TheAggregate.IsFailed

\* block occurs in whole as a contiguous run
ContiguousIn(block, whole) ==
    \E off \in 0..(Len(whole) - Len(block)) :
        SubSeq(whole, off + 1, off + Len(block)) = block

(***************************************************************************)
(* C6: in Eager strategy a stream whose worker process fails to start runs *)
(* no executor and sends a StreamResult with no spec result and exactly    *)
(* one StreamExecError naming precisely the specs of its bucket; when      *)
(* exactly one stream failed, the aggregate's UnhandledErrors is exactly   *)
(* that entry, and every other stream's result was received as sent, with  *)
(* its spec results (those of its own bucket, in order) a contiguous block *)
(* of the aggregate's, which holds nothing else.                           *)
(***************************************************************************)
C6_EagerStartFailureIsolated ==
    (~lazyPath) =>
      /\ \A i \in Streams : (StartFailed(i) /\ sends[i] = 1) =>
            /\ executed[i] = 0
            /\ streamRes[i].SpecResults = <<>>
            /\ streamRes[i].UnhandledErrors = <<streamExecError(buckets[i])>>
      /\ (Returned /\ Cardinality({i \in Effective : StartFailed(i)}) = 1) =>
            LET f == CHOOSE i \in Effective : StartFailed(i)
            IN /\ TheAggregate.UnhandledErrors = <<streamExecError(buckets[f])>>
               /\ \A j \in Effective \ {f} :
                     /\ \E k \in 1..Len(res) : res[k] = streamRes[j]
                     /\ Names(streamRes[j].SpecResults) = buckets[j]
                     /\ ContiguousIn(streamRes[j].SpecResults, TheAggregate.SpecResults)
               /\ Len(TheAggregate.SpecResults) = Len(specCollection) - Len(buckets[f])

\* an Eager run of two streams has returned; one stream failed to start, the
\* other ran its bucket
C6_Witness ==
    /\ Returned /\ ~lazyPath /\ nStreams = 2
    /\ \E f, j \in Effective :
          /\ StartFailed(f) /\ executed[j] = 1
          /\ Len(buckets[f]) > 0 /\ Len(buckets[j]) > 0

(***************************************************************************)
(* C7: in Lazy strategy a stream whose worker process fails to start sends *)
(* a StreamResult whose UnhandledErrors is exactly one StreamExecError     *)
(* naming the specs it was responsible for; when one stream fails and      *)
(* another runs, the executed and the skipped specs of the aggregate add   *)
(* up to the size of the collection.                                       *)
(***************************************************************************)
C7_LazyStartFailureIsStreamExecError ==
    lazyPath =>
      /\ \A i \in Streams : (StartFailed(i) /\ sends[i] = 1) =>
            /\ Len(streamRes[i].UnhandledErrors) = 1
            /\ streamRes[i].UnhandledErrors[1].kind = "streamExecError"
      /\ (Returned /\ (\E i \in Effective : StartFailed(i))
                   /\ (\E j \in Effective : executed[j] = 1)) =>
            Len(TheAggregate.SpecResults) + Len(SkippedIn(TheAggregate.UnhandledErrors))
               = Len(specCollection)

(***************************************************************************)
(* C8: for every requested stream count N >= 1 and every spec count S, the *)
(* effective stream count run() computes is min(N, S), and it is 0 exactly *)
(* when S is 0.                                                            *)
(***************************************************************************)
C8_EffectiveStreamsIsMin ==
    (pc \notin {"start", "plugins", "fatal", "resolve"} /\ numberOfExecutionStreams >= 1) =>
      /\ nStreams = Min(numberOfExecutionStreams, Len(specCollection))
      /\ nStreams = 0 <=> Len(specCollection) = 0

\* the requested count was clamped to a smaller, non-zero number of specs
C8_Witness ==
    /\ pc = "spawn"
    /\ Len(specCollection) > 0
    /\ numberOfExecutionStreams > Len(specCollection)
    /\ nStreams = Len(specCollection)

\* how many pullers hold spec s
Claims(s) ==
    Cardinality({c \in {<<i, k>> : i \in Streams, k \in 1..MaxSpecs + 1} :
                    c[2] <= Len(claimed[c[1]]) /\ claimed[c[1]][c[2]].spec = s})

(***************************************************************************)
(* C9: in Lazy strategy, with the streams pulling concurrently from the    *)
(* one shared collection, no spec is held by two pullers, the specs handed *)
(* out so far are exactly those before the cursor, a puller is told "no    *)
(* more work" only when every spec has been claimed, and once the          *)
(* collection is exhausted a pull returns "no more work".                  *)
(***************************************************************************)
C9_LazyEachSpecClaimedOnce ==
    lazyPath =>
      /\ index <= Len(specCollection)
      /\ \A s \in 1..Len(specCollection) : Claims(specCollection[s]) = IF s <= index THEN 1 ELSE 0
      /\ \A i \in Streams : executed[i] > 0 =>
            /\ index = Len(specCollection)
            /\ \A s \in Range(specCollection) : Claims(s) = 1
      /\ index = Len(specCollection) => SpecCollectionNext(specCollection, index) = <<>>

\* two pullers have shared three specs and both were told there is no more work
C9_Witness ==
    /\ lazyPath /\ Len(specCollection) = 3
    /\ executed[1] = 1 /\ executed[2] = 1
    /\ Len(claimed[1]) > 0 /\ Len(claimed[2]) > 0

(***************************************************************************)
(* C10: in Eager strategy the buckets partition the spec collection (each  *)
(* spec in exactly one bucket, once), there are as many buckets as the     *)
(* effective stream count added to the wait group, one stream is spawned   *)
(* per bucket, and stream i runs or skips exactly bucket i, in full; when  *)
(* at least as many streams are requested as there are specs, each bucket  *)
(* holds one spec, and with no start failure the aggregate holds one spec  *)
(* result per spec.                                                        *)
(***************************************************************************)
C10_EagerBucketsPartition ==
    (~lazyPath /\ closerPc \in {"add", "loop", "close", "done"}) =>
      /\ Len(buckets) = nStreams
      /\ \A s \in Range(specCollection) :
            Cardinality({c \in {<<b, k>> : b \in 1..Len(buckets), k \in 1..Len(specCollection)} :
                            c[2] <= Len(buckets[c[1]]) /\ buckets[c[1]][c[2]] = s}) = 1
      /\ \A b \in 1..Len(buckets) : Range(buckets[b]) \subseteq Range(specCollection)
      /\ closerPc # "add" =>
            wg + Cardinality({i \in Streams : streamPc[i] = "done"}) = Len(buckets)
      /\ closerPc \in {"close", "done"} =>
            {i \in Streams : streamPc[i] # "idle"} = 1..Len(buckets)
      /\ \A i \in Streams : executed[i] = 1 =>
            Names(streamRes[i].SpecResults) = buckets[i]
      /\ \A i \in Streams : (StartFailed(i) /\ sends[i] = 1) =>
            SkippedIn(streamRes[i].UnhandledErrors) = buckets[i]
      /\ numberOfExecutionStreams >= Len(specCollection) =>
            \A b \in 1..Len(buckets) : Len(buckets[b]) = 1
      /\ (Returned /\ \A i \in Effective : executed[i] = 1) =>
            /\ Len(TheAggregate.SpecResults) = Len(specCollection)
            /\ \A s \in Range(specCollection) : Occurrences(s, TheAggregate.SpecResults) = 1

\* an Eager run with as many streams as specs has returned: two buckets of
\* one spec each, two spec results in the aggregate
C10_Witness ==
    /\ Returned /\ ~lazyPath
    /\ numberOfExecutionStreams >= Len(specCollection)
    /\ Len(buckets) = 2 /\ Len(buckets[1]) = 1 /\ Len(buckets[2]) = 1
    /\ Len(TheAggregate.SpecResults) = 2

\* the arrival orders of n stream results
Perms(n) == {p \in [1..n -> 1..n] : \A a, b \in 1..n : p[a] = p[b] => a = b}

\* the stream results in arrival order p
Permuted(s, p) == [k \in 1..Len(s) |-> s[p[k]]]

\* how often x occurs in a list
CountIn(x, s) == Cardinality({k \in 1..Len(s) : s[k] = x})

\* two lists hold the same entries, each as often, in some order
SameEntries(s, u) ==
    /\ Len(s) = Len(u)
    /\ \A k \in 1..Len(s) : CountIn(s[k], s) = CountIn(s[k], u)

(***************************************************************************)
(* C11: the counts and flags of the aggregate do not depend on the arrival *)
(* order: had the stream results arrived in any other order, aggregation   *)
(* would give the same SpecsFailedCount, the same number of spec results,  *)
(* the same number of unhandled errors and the same IsFailed flag.         *)
(***************************************************************************)
C11_CountsOrderIndependent ==
    Returned =>
      \A p \in Perms(Len(res)) :
         LET a == aggregateResults(Permuted(res, p))
         IN /\ a.SpecsFailedCount = TheAggregate.SpecsFailedCount
            /\ Len(a.SpecResults) = Len(TheAggregate.SpecResults)
            /\ Len(a.UnhandledErrors) = Len(TheAggregate.UnhandledErrors)
            /\ a.IsFailed = TheAggregate.IsFailed

\* two stream results arrived, a failed one before one without failure
C11_Witness ==
    /\ Returned /\ Len(res) = 2
    /\ res[1].IsFailed /\ res[1].SpecsFailedCount > 0
    /\ ~res[2].IsFailed /\ Len(res[2].SpecResults) > 0

(***************************************************************************)
(* C12 as stated: had the stream results arrived in any other order, the   *)
(* aggregate would be identical in every field modelled (all but           *)
(* ExecutionTime).                                                         *)
(***************************************************************************)
C12_AggregateIdenticalInAnyOrder ==
    Returned =>
      \A p \in Perms(Len(res)) : aggregateResults(Permuted(res, p)) = TheAggregate

(***************************************************************************)
(* C12 as amended: had the stream results arrived in any other order, the  *)
(* aggregate would have the same SpecsFailedCount and IsFailed, the same   *)
(* spec results and the same unhandled errors each as often (their order,  *)
(* stream block by stream block, follows the arrival order), and a         *)
(* pre-/post-suite hook result that is nil in both or taken from one of    *)
(* the stream results in both.                                             *)
(***************************************************************************)
C12_AggregateSameUpToOrder ==
    Returned =>
      \A p \in Perms(Len(res)) :
         LET a == aggregateResults(Permuted(res, p))
         IN /\ a.SpecsFailedCount = TheAggregate.SpecsFailedCount
            /\ a.IsFailed = TheAggregate.IsFailed
            /\ SameEntries(a.SpecResults, TheAggregate.SpecResults)
            /\ SameEntries(a.UnhandledErrors, TheAggregate.UnhandledErrors)
            /\ (a.PreSuite = Nil) <=> (TheAggregate.PreSuite = Nil)
            /\ (a.PostSuite = Nil) <=> (TheAggregate.PostSuite = Nil)
            /\ a.PreSuite # Nil => \E k \in 1..Len(res) : res[k].PreSuite = a.PreSuite
            /\ a.PostSuite # Nil => \E k \in 1..Len(res) : res[k].PostSuite = a.PostSuite

\* two stream results arrived, each with spec results and a pre-suite hook
\* result: the other arrival order gives another aggregate
C12_Witness ==
    /\ Returned /\ Len(res) = 2
    /\ Len(res[1].SpecResults) > 0 /\ Len(res[2].SpecResults) > 0
    /\ res[1].PreSuite # Nil /\ res[2].PreSuite # Nil
    /\ aggregateResults(<<res[2], res[1]>>) # TheAggregate

\* the first entry of a list of hook results that is not nil, nil if none is
FirstNonNil(hooks) ==
    IF \A k \in 1..Len(hooks) : hooks[k] = Nil THEN Nil
    ELSE hooks[CHOOSE k \in 1..Len(hooks) :
                  hooks[k] # Nil /\ \A j \in 1..(k - 1) : hooks[j] = Nil]

\* the last entry of a list of hook results that is not nil, nil if none is
LastNonNil(hooks) ==
    IF \A k \in 1..Len(hooks) : hooks[k] = Nil THEN Nil
    ELSE hooks[CHOOSE k \in 1..Len(hooks) :
                  hooks[k] # Nil /\ \A j \in (k + 1)..Len(hooks) : hooks[j] = Nil]

\* the pre-suite / post-suite hook results of the stream results, in arrival order
PreSuites == [k \in 1..Len(res) |-> res[k].PreSuite]
PostSuites == [k \in 1..Len(res) |-> res[k].PostSuite]

(***************************************************************************)
(* C13 as stated: the aggregate retains the first non-nil pre-suite        *)
(* (post-suite) hook result in arrival order, and nil when no stream       *)
(* result carries one.                                                     *)
(***************************************************************************)
C13_FirstHookResultRetained ==
    Returned =>
      /\ TheAggregate.PreSuite = FirstNonNil(PreSuites)
      /\ TheAggregate.PostSuite = FirstNonNil(PostSuites)

(***************************************************************************)
(* C13 as amended: the aggregate retains the last non-nil pre-suite        *)
(* (post-suite) hook result in arrival order, and nil when no stream       *)
(* result carries one.                                                     *)
(***************************************************************************)
C13_LastHookResultRetained ==
    Returned =>
      /\ TheAggregate.PreSuite = LastNonNil(PreSuites)
      /\ TheAggregate.PostSuite = LastNonNil(PostSuites)

\* two stream results arrived, both with a pre-suite and a post-suite hook
\* result; the aggregate holds those of the second
C13_Witness ==
    /\ Returned /\ Len(res) = 2
    /\ res[1].PreSuite # Nil /\ res[2].PreSuite # Nil
    /\ res[1].PostSuite # Nil /\ res[2].PostSuite # Nil
    /\ res[1].PreSuite # res[2].PreSuite
    /\ TheAggregate.PreSuite = res[2].PreSuite

\* the sum of a list of numbers
RECURSIVE Sum(_)
Sum(s) == IF s = <<>> THEN 0 ELSE Head(s) + Sum(Tail(s))

(***************************************************************************)
(* C18: the aggregate's SpecsFailedCount is the sum of the stream results' *)
(* failed counts, IsFailed is the OR of their failure flags, SpecResults   *)
(* is the concatenation of their spec-result lists in arrival order (each  *)
(* stream's list a contiguous block in its own order) and UnhandledErrors  *)
(* is the concatenation of their unhandled-error lists.                    *)
(***************************************************************************)
C18_AggregateIsSumOrConcat ==
    Returned =>
      /\ TheAggregate.SpecsFailedCount = Sum([k \in 1..Len(res) |-> res[k].SpecsFailedCount])
      /\ TheAggregate.IsFailed <=> \E k \in 1..Len(res) : res[k].IsFailed
      /\ TheAggregate.SpecResults = Flatten([k \in 1..Len(res) |-> res[k].SpecResults])
      /\ TheAggregate.UnhandledErrors = Flatten([k \in 1..Len(res) |-> res[k].UnhandledErrors])
      /\ \A k \in 1..Len(res) : ContiguousIn(res[k].SpecResults, TheAggregate.SpecResults)

\* a stream result with two spec results, one of them failed, and a stream
\* result with an unhandled error were aggregated
C18_Witness ==
    /\ Returned /\ Len(res) = 2
    /\ \E k \in 1..2 : Len(res[k].SpecResults) = 2 /\ res[k].SpecsFailedCount = 1
    /\ \E k \in 1..2 : Len(res[k].UnhandledErrors) = 1

\* r is what the single-stream executor returns for stream i: the spec
\* results of the specs it was given (Eager: its bucket) or pulled (Lazy)
IsExecutorResultOf(i, r) ==
    /\ \E pre \in BOOLEAN, post \in BOOLEAN : r = ExecutorResult(i, r.SpecResults, pre, post)
    /\ IF lazyPath THEN r.SpecResults = claimed[i]
                   ELSE Names(r.SpecResults) = buckets[i]

(***************************************************************************)
(* C14: a stream whose worker process started kills it exactly once, after *)
(* the single-stream executor has returned and whatever the executor       *)
(* reported, before it sends; the StreamResult it sends is the executor's, *)
(* unmodified.  A stream whose start failed runs no executor and issues    *)
(* no kill.                                                                *)
(***************************************************************************)
C14_KilledOnceAfterExecutor ==
    \A i \in Streams :
      /\ started[i] <= 1 /\ executed[i] <= 1 /\ killed[i] <= 1
      /\ killed[i] = 1 => (started[i] = 1 /\ executed[i] = 1)
      /\ executed[i] = 1 => started[i] = 1
      /\ (started[i] = 1 /\ streamPc[i] \in {"send", "return", "done"}) =>
            (executed[i] = 1 /\ killed[i] = 1)
      /\ (started[i] = 1 /\ sends[i] = 1) =>
            /\ \E k \in 1..Len(res) : res[k] = streamRes[i]
            /\ IsExecutorResultOf(i, streamRes[i])
      /\ started[i] = 0 => (executed[i] = 0 /\ killed[i] = 0)

\* a stream whose executor reported a failure has killed its worker process
\* and sent the result, next to a stream that failed to start
C14_Witness ==
    \E i, j \in Streams :
      /\ started[i] = 1 /\ sends[i] = 1 /\ killed[i] = 1
      /\ streamRes[i].IsFailed
      /\ StartFailed(j) /\ sends[j] = 1 /\ killed[j] = 0

(***************************************************************************)
(* C20: when the collector's range loop has ended, hence when aggregation  *)
(* starts, the suite-end event is emitted and the plugins are notified,    *)
(* every worker process started in this run has been killed.               *)
(***************************************************************************)
C20_WorkersKilledBeforeAggregation ==
    Drained => \A i \in Streams : killed[i] = started[i]

\* aggregation is about to start after two worker processes were started and killed
C20_Witness ==
    /\ pc = "aggregate"
    /\ \A i \in 1..2 : started[i] = 1 /\ killed[i] = 1

(***************************************************************************)
(* C15: the steps of run() happen in one fixed order, each at most once:   *)
(* suite-start event, plugin start, resolution of the stream count, spawn  *)
(* of the streams, aggregation, suite-end event, plugin notification,      *)
(* graceful plugin shutdown.  A run that returns has done all eight, also  *)
(* when streams failed to start or specs failed; the suite-end event and   *)
(* the notification carry the aggregate that run() returns, which is the   *)
(* aggregate of everything collected.  Once the plugins are started the    *)
(* coordinator has a next step available until it has returned.            *)
(***************************************************************************)
RunOrder ==
    <<"SuiteStart", "StartPlugins", "numberOfStreams", "spawn", "aggregate",
      "SuiteEnd", "NotifyPlugins", "GracefullyKillPlugins">>

StepNames == [k \in 1..Len(events) |-> events[k].step]

C15_StepsInFixedOrder ==
    /\ Len(events) <= Len(RunOrder)
    /\ StepNames = SubSeq(RunOrder, 1, Len(events))
    /\ Returned => StepNames = RunOrder
    /\ \A k \in 1..Len(events) :
          events[k].step \in {"SuiteEnd", "NotifyPlugins"} =>
            /\ suiteResult = <<aggregateResults(res)>>
            /\ events[k].result = suiteResult
    /\ (pluginHandler = "started" /\ pc # "done" /\ ~panicked) => ENABLED Next

\* a run that returned after all eight steps although every one of its two
\* streams failed to start
C15_Witness ==
    /\ Returned
    /\ StepNames = RunOrder
    /\ nStreams = 2
    /\ \A i \in Effective : StartFailed(i)
    /\ Len(TheAggregate.UnhandledErrors) = 2

LazySpellings == {"lazy", "LAZY", "Lazy"}

C17_LazyIffLazyIgnoringCase ==
    /\ ~panicked
    /\ closerPc # "idle" =>
          /\ lazyPath <=> Strategy \in LazySpellings
          /\ Strategy \in {"eager", "EAGER", "bogus", ""} => ~lazyPath
    /\ (closerPc # "idle" /\ lazyPath) => buckets = <<>>
    /\ (~lazyPath /\ closerPc \notin {"idle", "distribute"}) =>
          buckets = DistributeSpecs(specCollection, nStreams)
    /\ \A i \in Streams :
          claimed[i] # <<>> => Strategy \in LazySpellings

\* an unrecognised strategy ran its spec on the Eager path and returned,
\* and an upper-case "LAZY" is a state of the same specification
C17_Witness ==
    /\ Strategy = "bogus"
    /\ Returned
    /\ ~lazyPath
    /\ buckets # <<>>
    /\ executed[1] = 1

(***************************************************************************)
(* C19: for every requested stream count the coordinator can be built with *)
(* and every non-empty spec collection, the effective stream count is the  *)
(* minimum of the two and is not zero, so at least one stream is spawned.  *)
(***************************************************************************)
C19_NeverZeroStreamsWithSpecs ==
    /\ (pc \notin {"start", "plugins", "fatal", "resolve"} /\ Len(specCollection) > 0) =>
          /\ nStreams = Min(numberOfExecutionStreams, Len(specCollection))
          /\ nStreams >= 1
    /\ (Returned /\ Len(specCollection) > 0) =>
          \E i \in Streams : streamPc[i] # "idle"

====
